---- MODULE Spec2Model ----
(***************************************************************************)
(* Model of examples/hyperband/hyperband_mlp_example.py: the target        *)
(* algorithm mlp_from_cfg and the __main__ driver that runs it through the *)
(* HB4AC facade.                                                           *)
(*                                                                         *)
(* Real numbers are exact rationals <<num, den>> with den > 0.  An         *)
(* optional value (Python's None or an unset name) is a sequence: <<>> is  *)
(* None, <<x>> is the value x.                                             *)
(***************************************************************************)
EXTENDS Integers, Sequences, FiniteSets, TLC

VARIABLES
    pc,                  \* position of the __main__ block
    cs,                  \* the ConfigurationSpace
    scenario,            \* the Scenario options
    max_iters,           \* line 110
    intensifier_kwargs,  \* line 112
    smac,                \* the HB4AC facade, with smac.solver.incumbent
    def_value,           \* line 120
    incumbent,           \* lines 126, 128
    inc_value,           \* line 130
    stdout,              \* the lines printed
    exc,                 \* the exception in flight in the driver
    log,                 \* history: start and end of each driver step
    optRet,              \* history: what optimize() returned
    optExc,              \* history: what optimize() raised
    runs,                \* history: the arguments of the driver's calls of run()
    taCalls,             \* target-algorithm calls made by optimize()
    frame,               \* the activation of mlp_from_cfg, if one is running
    result,              \* how the last call of mlp_from_cfg ended
    filters,             \* warnings.filters, the process-wide filter list
    memo,                \* what cross-validation produced, per estimator and split
    calls                \* history: the calls of mlp_from_cfg that ended

vars == <<pc, cs, scenario, max_iters, intensifier_kwargs, smac, def_value,
          incumbent, inc_value, stdout, exc, log, optRet, optExc, runs, taCalls,
          frame, result, filters, memo, calls>>

driverVars == <<pc, cs, scenario, max_iters, intensifier_kwargs, smac,
                def_value, incumbent, inc_value, stdout, exc, log, optRet,
                optExc, runs, taCalls>>

----------------------------------------------------------------------------
(* Bounds of the model *)

\* fold accuracies are k / ScoreDen, k \in 0 .. ScoreDen
ScoreDen == 2

\* harness budgets are k / BudgetDen
BudgetDen == 3

\* harness budgets run up to MaxBudget
MaxBudget == 2

\* calls of the target algorithm one optimize() makes
MaxTaCalls == 1

----------------------------------------------------------------------------
(* Rational arithmetic *)

Rat(n, d) == <<n, d>>

RatLt(a, b) == a[1] * b[2] < b[1] * a[2]

RatLe(a, b) == a[1] * b[2] <= b[1] * a[2]

RatEq(a, b) == a[1] * b[2] = b[1] * a[2]

RECURSIVE SumSeq(_)
SumSeq(s) == IF s = <<>> THEN 0 ELSE Head(s) + SumSeq(Tail(s))

----------------------------------------------------------------------------
(* Program constants *)

\* n_splits=5, line 76
n_splits == 5

\* the marker of a fold whose fit or scoring failed
FoldFailed == -1

\* ('ignore', None, ConvergenceWarning, None, 0), the filter line 64 installs
IgnoreConvergenceWarning == [action |-> "ignore", category |-> "ConvergenceWarning"]

\* the hyperparameters of lines 89-94
n_layer == [name |-> "n_layer", kind |-> "UniformInteger", lower |-> 1, upper |-> 5,
            log |-> FALSE, default_value |-> 1]

n_neurons == [name |-> "n_neurons", kind |-> "UniformInteger", lower |-> 8,
              upper |-> 1024, log |-> TRUE, default_value |-> 10]

activation == [name |-> "activation", kind |-> "Categorical",
               choices |-> <<"logistic", "tanh", "relu">>, default_value |-> "tanh"]

batch_size == [name |-> "batch_size", kind |-> "UniformInteger", lower |-> 30,
               upper |-> 300, log |-> FALSE, default_value |-> 200]

learning_rate_init == [name |-> "learning_rate_init", kind |-> "UniformFloat",
                       lower |-> Rat(1, 10000), upper |-> Rat(1, 1), log |-> TRUE,
                       default_value |-> Rat(1, 1000)]

\* cs after cs.add_hyperparameters([...]), line 95
Hyperparameters == <<n_layer, n_neurons, activation, batch_size, learning_rate_init>>

\* the options of lines 98-107
ScenarioOptions(space) ==
    [run_obj |-> "quality", wallclock_limit |-> 100, cs |-> space,
     deterministic |-> "true", limit_resources |-> TRUE, cutoff |-> 30,
     memory_limit |-> 3072]

\* cs.get_default_configuration(), line 120: every parameter at its default
get_default_configuration(space) ==
    [p \in {space[i].name : i \in 1 .. Len(space)} |->
        space[CHOOSE i \in 1 .. Len(space) : space[i].name = p].default_value]

\* another configuration of the space, at the far end of every domain
OtherConfiguration(space) ==
    [p \in {space[i].name : i \in 1 .. Len(space)} |->
        LET h == space[CHOOSE i \in 1 .. Len(space) : space[i].name = p]
        IN  IF h.kind = "Categorical" THEN h.choices[Len(h.choices)] ELSE h.upper]

\* the configurations the optimizer draws from the space
Configurations == {get_default_configuration(Hyperparameters),
                   OtherConfiguration(Hyperparameters)}

\* seeds and instances the callers pass
Seeds == {0, 1}

Instances == {"1", "2"}

\* budgets of Hyperband with initial_budget 5, max_budget 50, eta 3:
\* 50 / 9, 50 / 3 and 50
HyperbandBudgets == {Rat(50, 9), Rat(50, 3), Rat(50, 1)}

\* the lowest and the highest of them, for runs that make several calls
SomeBudgets == {Rat(50, 9), Rat(50, 1)}

\* budgets the harness passes: k / BudgetDen from -1 up to MaxBudget, and
\* those of Hyperband
HarnessBudgets ==
    {Rat(k, BudgetDen) : k \in (0 - BudgetDen) .. (MaxBudget * BudgetDen)}
        \cup HyperbandBudgets

\* the filter lists the process may start with
DefaultDeprecation == [action |-> "default", category |-> "DeprecationWarning"]

FilterStates == {<<DefaultDeprecation>>,
                 <<DefaultDeprecation, IgnoreConvergenceWarning>>}

----------------------------------------------------------------------------
(* mlp_from_cfg, lines 41-79 *)

\* warnings.filterwarnings(action, category=...), line 64: the entry goes to
\* the front of the list, an equal entry already in the list is dropped
filterwarnings(fs, item) == <<item>> \o SelectSeq(fs, LAMBDA f : f # item)

\* int(budget): the budget cut off toward zero
IntTrunc(budget) ==
    IF budget[1] >= 0 THEN budget[1] \div budget[2]
    ELSE 0 - ((0 - budget[1]) \div budget[2])

\* int(np.ceil(budget)), line 71
IntCeil(budget) == 0 - ((0 - budget[1]) \div budget[2])

\* [cfg["n_neurons"]] * cfg["n_layer"], line 67
hidden_layer_sizes(cfg) == [i \in 1 .. cfg["n_layer"] |-> cfg["n_neurons"]]

\* mlp = MLPClassifier(...), lines 66-72, from the locals f of the call
MLPClassifier(f) ==
    [hidden_layer_sizes |-> hidden_layer_sizes(f.cfg),
     batch_size |-> f.cfg["batch_size"],
     activation |-> f.cfg["activation"],
     learning_rate_init |-> f.cfg["learning_rate_init"],
     max_iter |-> IntCeil(f.budget),
     random_state |-> <<f.seed>>]

\* StratifiedKFold(n_splits=5, shuffle=True): the split left unseeded
StratifiedKFoldUnseeded(f) ==
    [n_splits |-> n_splits, random_state |-> <<>>, shuffle |-> TRUE]

\* cv = StratifiedKFold(n_splits=5, random_state=seed, shuffle=True), line 76
StratifiedKFold(f) ==
    [n_splits |-> n_splits, random_state |-> <<f.seed>>, shuffle |-> TRUE]

\* cross_val_score(..., error_score=0): a failed fold scores 0
cross_val_score_error_score_zero(folds) ==
    <<[i \in 1 .. Len(folds) |-> IF folds[i] = FoldFailed THEN 0 ELSE folds[i]]>>

\* cross_val_score(mlp, digits.data, digits.target, cv=cv, error_score='raise'),
\* line 77, on the outcomes of the folds: the scores, or <<>> when it raises
cross_val_score(folds) ==
    IF \E i \in 1 .. Len(folds) : folds[i] = FoldFailed THEN <<>> ELSE <<folds>>

\* np.mean(score), line 79
NpMean(score) == Rat(SumSeq(score), Len(score) * ScoreDen)

\* np.mean(score) returned as it is: the accuracy, not the cost
CostWithoutComplement(score) == NpMean(score)

\* 1 - np.mean(score), line 79
Cost(score) == LET m == NpMean(score) IN Rat(m[2] - m[1], m[2])

\* the outcomes of the n_splits folds: an accuracy k / ScoreDen or a failure
AllFolds == [1 .. n_splits -> (0 .. ScoreDen) \cup {FoldFailed}]

\* a few of them, for runs that make several calls
SomeFolds == {[i \in 1 .. n_splits |-> ScoreDen],
              [i \in 1 .. n_splits |-> IF i = 2 THEN 0 ELSE 1],
              [i \in 1 .. n_splits |-> IF i = 3 THEN FoldFailed ELSE ScoreDen]}

\* what cross-validation depends on: the estimator and the splitter (the data,
\* digits, is loaded once at line 35 and never written)
CrossValKey(mlp, cv) == [mlp |-> mlp, cv |-> cv]

\* an estimator or a splitter with random_state None draws from the global
\* generator: its outcome is not a function of its parameters
Seeded(key) == key.mlp.random_state # <<>> /\
               (key.cv.shuffle => key.cv.random_state # <<>>)

\* MLPClassifier.fit rejects max_iter <= 0: the first fold fails
Admissible(key, folds) == key.mlp.max_iter <= 0 => folds[1] = FoldFailed

NoFrame == <<>>

NoResult == <<>>

\* the activation of a call mlp_from_cfg(cfg, seed, instance, budget)
NewFrame(cfg, seed, instance, budget) ==
    <<[pc |-> "L63", cfg |-> cfg, seed |-> seed, instance |-> instance,
       budget |-> budget, mlp |-> <<>>, cv |-> <<>>, folds |-> <<>>,
       score |-> <<>>, raising |-> FALSE, saved_filters |-> <<>>,
       filters_before |-> filters] >>

Running == frame # NoFrame

At(l) == Running /\ frame[1].pc = l

\* line 63: with warnings.catch_warnings() saves the filter list
EnterCatchWarnings ==
    /\ At("L63")
    /\ frame' = <<[frame[1] EXCEPT !.pc = "L64", !.saved_filters = <<filters>>]>>
    /\ UNCHANGED <<driverVars, result, filters, memo, calls>>

\* line 64
IgnoreWarnings ==
    /\ At("L64")
    /\ filters' = filterwarnings(filters, IgnoreConvergenceWarning)
    /\ frame' = <<[frame[1] EXCEPT !.pc = "L66"]>>
    /\ UNCHANGED <<driverVars, result, memo, calls>>

\* lines 66-72, with the configuration normalised in place
ConstructMLPWritingCfg ==
    /\ At("L66")
    /\ frame' = <<[frame[1] EXCEPT !.pc = "L76", !.mlp = <<MLPClassifier(frame[1])>>,
                                   !.cfg = [@ EXCEPT !["n_layer"] = 0]]>>
    /\ UNCHANGED <<driverVars, result, filters, memo, calls>>

\* lines 66-72
ConstructMLP ==
    /\ At("L66")
    /\ frame' = <<[frame[1] EXCEPT !.pc = "L76", !.mlp = <<MLPClassifier(frame[1])>>]>>
    /\ UNCHANGED <<driverVars, result, filters, memo, calls>>

\* line 76
ConstructCV ==
    /\ At("L76")
    /\ frame' = <<[frame[1] EXCEPT !.pc = "L77", !.cv = <<StratifiedKFold(frame[1])>>]>>
    /\ UNCHANGED <<driverVars, result, filters, memo, calls>>

\* line 77: the folds come out as they did the last time the same estimator
\* was validated on the same split; a failed fold raises out of the with block
CrossValScore(Outcomes) ==
    /\ At("L77")
    /\ LET key == CrossValKey(frame[1].mlp[1], frame[1].cv[1])
       IN  \E folds \in Outcomes :
             /\ Admissible(key, folds)
             /\ (Seeded(key) /\ key \in DOMAIN memo) => folds = memo[key]
             /\ memo' = IF Seeded(key) THEN (key :> folds) @@ memo ELSE memo
             /\ LET score == cross_val_score(folds)
                IN  frame' = <<[frame[1] EXCEPT !.pc = "L77_exit",
                                                !.folds = folds,
                                                !.score = score,
                                                !.raising = (score = <<>>)]>>
    /\ UNCHANGED <<driverVars, result, filters, calls>>

\* an exception raised inside the with block, by a call it makes or by an
\* interrupt, leaves the block as a failed fold does (taken at its first and
\* at its last statement)
Interrupted ==
    /\ Running
    /\ frame[1].pc \in {"L64", "L77"}
    /\ frame' = <<[frame[1] EXCEPT !.pc = "L77_exit", !.raising = TRUE]>>
    /\ UNCHANGED <<driverVars, result, filters, memo, calls>>

\* the record of a call that ended
CallRecord(f, kind, value, after) ==
    [cfg |-> f.cfg, seed |-> f.seed, instance |-> f.instance, budget |-> f.budget,
     mlp |-> f.mlp, cv |-> f.cv, folds |-> f.folds, kind |-> kind, value |-> value,
     filters_before |-> f.filters_before, filters_after |-> after]

\* how a call ended, for its caller
Outcome(f, kind, value) == <<[kind |-> kind, value |-> value, cfg |-> f.cfg]>>

\* the body of mlp_from_cfg without the with block: the filter list stays as
\* line 64 left it
ExitWithoutRestore ==
    /\ At("L77_exit")
    /\ filters' = filters
    /\ IF frame[1].raising
       THEN /\ frame' = NoFrame
            /\ result' = Outcome(frame[1], "raise", Rat(0, 1))
            /\ calls' = calls \cup {CallRecord(frame[1], "raise", Rat(0, 1), filters')}
       ELSE /\ frame' = <<[frame[1] EXCEPT !.pc = "L79"]>>
            /\ UNCHANGED <<result, calls>>
    /\ UNCHANGED <<driverVars, memo>>

\* the end of the with block of line 63: catch_warnings puts the saved filter
\* list back, on the normal path and on the exceptional one; an exception then
\* leaves mlp_from_cfg
ExitCatchWarnings ==
    /\ At("L77_exit")
    /\ filters' = frame[1].saved_filters[1]
    /\ IF frame[1].raising
       THEN /\ frame' = NoFrame
            /\ result' = Outcome(frame[1], "raise", Rat(0, 1))
            /\ calls' = calls \cup {CallRecord(frame[1], "raise", Rat(0, 1), filters')}
       ELSE /\ frame' = <<[frame[1] EXCEPT !.pc = "L79"]>>
            /\ UNCHANGED <<result, calls>>
    /\ UNCHANGED <<driverVars, memo>>

\* line 79
Return ==
    /\ At("L79")
    /\ LET value == Cost(frame[1].score[1])
       IN  /\ result' = Outcome(frame[1], "return", value)
           /\ calls' = calls \cup {CallRecord(frame[1], "return", value, filters)}
    /\ frame' = NoFrame
    /\ UNCHANGED <<driverVars, filters, memo>>

----------------------------------------------------------------------------
(* The library the driver calls: smac's facade, solver and runner *)

\* the cost the runner reports for a run that crashed (MAXINT)
CrashCost == Rat(2147483647, 1)

\* smac.get_tae_runner().run(...)[1], given how the target algorithm ended:
\* its cost, and for a crashed run the crash cost or the exception
RunOutcomes(r) ==
    IF r.kind = "return"
    THEN {[kind |-> "return", value |-> r.value]}
    ELSE {[kind |-> "return", value |-> CrashCost],
          [kind |-> "raise", value |-> Rat(0, 1)]}

\* what optimize() may raise
OptimizeExceptions == {"KeyboardInterrupt", "RuntimeError"}

\* optimize() runs the target algorithm on a configuration and a budget of its choice
OptimizeRunsTA ==
    /\ pc = "L126_run"
    /\ ~Running
    /\ result = NoResult
    /\ taCalls < MaxTaCalls
    /\ taCalls' = taCalls + 1
    /\ \E cfg \in Configurations, seed \in Seeds, instance \in Instances,
          budget \in SomeBudgets :
            frame' = NewFrame(cfg, seed, instance, budget)
    /\ UNCHANGED <<pc, cs, scenario, max_iters, intensifier_kwargs, smac, def_value,
                   incumbent, inc_value, stdout, exc, log, optRet, optExc, runs, result, filters,
                   memo, calls>>

\* the solver takes the result of the run and may make its configuration the incumbent
OptimizeTakesResult ==
    /\ pc = "L126_run"
    /\ ~Running
    /\ result # NoResult
    /\ result' = NoResult
    /\ \E inc \in {smac[1].solver.incumbent} \cup
                    (IF result[1].kind = "return" THEN {<<result[1].cfg>>} ELSE {}) :
          smac' = <<[smac[1] EXCEPT !.solver.incumbent = inc]>>
    /\ UNCHANGED <<pc, cs, scenario, max_iters, intensifier_kwargs, def_value,
                   incumbent, inc_value, stdout, exc, log, optRet, optExc, runs, taCalls, frame,
                   filters, memo, calls>>

\* optimize() returns a configuration
OptimizeReturns ==
    /\ pc = "L126_run"
    /\ ~Running
    /\ result = NoResult
    /\ smac[1].solver.incumbent # <<>>
    /\ \E c \in Configurations :
          /\ optRet' = <<c>>
          /\ incumbent' = <<c>>
    /\ log' = Append(log, <<"end", "optimize">>)
    /\ pc' = "L128"
    /\ UNCHANGED <<cs, scenario, max_iters, intensifier_kwargs, smac, def_value,
                   inc_value, stdout, exc, optExc, runs, taCalls, frame, result, filters, memo,
                   calls>>

\* optimize() raises
OptimizeRaises ==
    /\ pc = "L126_run"
    /\ ~Running
    /\ \E e \in OptimizeExceptions :
          /\ exc' = <<e>>
          /\ optExc' = <<e>>
    /\ result' = NoResult
    /\ log' = Append(log, <<"raise", "optimize">>)
    /\ pc' = "L128"
    /\ UNCHANGED <<cs, scenario, max_iters, intensifier_kwargs, smac, def_value,
                   incumbent, inc_value, stdout, optRet, runs, taCalls, frame, filters,
                   memo, calls>>

----------------------------------------------------------------------------
(* The __main__ block, lines 82-132 *)

\* "%.4f" % value: the integer part and four decimals, rounded to the nearest
Format4(value) ==
    LET whole == value[1] \div value[2]
        frac == (2 * 10000 * (value[1] % value[2]) + value[2]) \div (2 * value[2])
    IN  IF frac = 10000 THEN <<whole + 1, 0>> ELSE <<whole, frac>>

\* lines 86-95
BuildConfigurationSpace ==
    /\ pc = "L86"
    /\ cs' = Hyperparameters
    /\ log' = log \o << <<"start", "build_cs">>, <<"end", "build_cs">> >>
    /\ pc' = "L98"
    /\ UNCHANGED <<scenario, max_iters, intensifier_kwargs, smac, def_value,
                   incumbent, inc_value, stdout, exc, optRet, optExc, runs, taCalls, frame,
                   result, filters, memo, calls>>

\* lines 98-107
ConstructScenario ==
    /\ pc = "L98"
    /\ scenario' = <<ScenarioOptions(cs)>>
    /\ log' = log \o << <<"start", "scenario">>, <<"end", "scenario">> >>
    /\ pc' = "L110"
    /\ UNCHANGED <<cs, max_iters, intensifier_kwargs, smac, def_value, incumbent,
                   inc_value, stdout, exc, optRet, optExc, runs, taCalls, frame, result, filters,
                   memo, calls>>

\* lines 110-112
SetIntensifierKwargs ==
    /\ pc = "L110"
    /\ max_iters' = <<50>>
    /\ intensifier_kwargs' =
          <<[initial_budget |-> 5, max_budget |-> max_iters'[1], eta |-> 3]>>
    /\ pc' = "L114"
    /\ UNCHANGED <<cs, scenario, smac, def_value, incumbent, inc_value, stdout, exc,
                   log, optRet, optExc, runs, taCalls, frame, result, filters, memo, calls>>

\* lines 114-116, with optimize() placed before the evaluation of the default
ConstructHB4ACThenOptimize ==
    /\ pc = "L114"
    /\ smac' = <<[scenario |-> scenario[1], rng |-> 42, tae_runner |-> "mlp_from_cfg",
                  intensifier_kwargs |-> intensifier_kwargs[1],
                  solver |-> [incumbent |-> <<>>]]>>
    /\ log' = log \o << <<"start", "hb4ac">>, <<"end", "hb4ac">> >>
    /\ pc' = "L126"
    /\ UNCHANGED <<cs, scenario, max_iters, intensifier_kwargs, def_value, incumbent,
                   inc_value, stdout, exc, optRet, optExc, runs, taCalls, frame,
                   result, filters, memo, calls>>

\* lines 114-116
ConstructHB4AC ==
    /\ pc = "L114"
    /\ smac' = <<[scenario |-> scenario[1], rng |-> 42, tae_runner |-> "mlp_from_cfg",
                  intensifier_kwargs |-> intensifier_kwargs[1],
                  solver |-> [incumbent |-> <<>>]]>>
    /\ log' = log \o << <<"start", "hb4ac">>, <<"end", "hb4ac">> >>
    /\ pc' = "L120"
    /\ UNCHANGED <<cs, scenario, max_iters, intensifier_kwargs, def_value, incumbent,
                   inc_value, stdout, exc, optRet, optExc, runs, taCalls, frame, result, filters,
                   memo, calls>>

\* lines 120-121: run(config=cs.get_default_configuration(), instance='1',
\* budget=max_iters, seed=0) is entered
EvaluateDefault ==
    /\ pc = "L120"
    /\ LET config == get_default_configuration(cs)
           budget == Rat(max_iters[1], 1)
       IN  /\ frame' = NewFrame(config, 0, "1", budget)
           /\ runs' = Append(runs, [step |-> "eval_default", config |-> config,
                                    instance |-> "1", budget |-> budget,
                                    seed |-> 0])
    /\ log' = Append(log, <<"start", "eval_default">>)
    /\ pc' = "L120_run"
    /\ UNCHANGED <<cs, scenario, max_iters, intensifier_kwargs, smac, def_value,
                   incumbent, inc_value, stdout, exc, optRet, optExc, taCalls, result,
                   filters, memo, calls>>

\* lines 120-121: run(...) is over and [1] of what it returned is def_value
DefaultEvaluated ==
    /\ pc = "L120_run"
    /\ ~Running
    /\ result # NoResult
    /\ result' = NoResult
    /\ \E o \in RunOutcomes(result[1]) :
          IF o.kind = "return"
          THEN /\ def_value' = <<o.value>>
               /\ log' = Append(log, <<"end", "eval_default">>)
               /\ pc' = "L122"
               /\ exc' = exc
          ELSE /\ exc' = <<"TAError">>
               /\ log' = Append(log, <<"raise", "eval_default">>)
               /\ pc' = "raised"
               /\ def_value' = def_value
    /\ UNCHANGED <<cs, scenario, max_iters, intensifier_kwargs, smac, incumbent,
                   inc_value, stdout, optRet, optExc, runs, taCalls, frame, filters, memo, calls>>

\* line 122
PrintDefault ==
    /\ pc = "L122"
    /\ stdout' = Append(stdout, <<"Value for default configuration", Format4(def_value[1])>>)
    /\ pc' = "L126"
    /\ UNCHANGED <<cs, scenario, max_iters, intensifier_kwargs, smac, def_value,
                   incumbent, inc_value, exc, log, optRet, optExc, runs, taCalls, frame, result,
                   filters, memo, calls>>

\* line 126: optimize() is entered, inside the try
CallOptimize ==
    /\ pc = "L126"
    /\ log' = Append(log, <<"start", "optimize">>)
    /\ pc' = "L126_run"
    /\ UNCHANGED <<cs, scenario, max_iters, intensifier_kwargs, smac, def_value,
                   incumbent, inc_value, stdout, exc, optRet, optExc, runs, taCalls, frame, result,
                   filters, memo, calls>>

\* lines 127-128 as an except clause that swallows the exception
FinallySwallowing ==
    /\ pc = "L128"
    /\ incumbent' = smac[1].solver.incumbent
    /\ exc' = <<>>
    /\ pc' = "L130"
    /\ UNCHANGED <<cs, scenario, max_iters, intensifier_kwargs, smac, def_value,
                   inc_value, stdout, log, optRet, optExc, runs, taCalls, frame,
                   result, filters, memo, calls>>

\* lines 127-128 without the assignment: incumbent stays what optimize() returned
FinallyKeepingReturned ==
    /\ pc = "L128"
    /\ pc' = IF exc # <<>> THEN "raised" ELSE "L130"
    /\ UNCHANGED <<cs, scenario, max_iters, intensifier_kwargs, smac, def_value,
                   incumbent, inc_value, stdout, exc, log, optRet, optExc, runs,
                   taCalls, frame, result, filters, memo, calls>>

\* lines 127-128: the finally clause; an exception in flight goes on after it
Finally ==
    /\ pc = "L128"
    /\ incumbent' = smac[1].solver.incumbent
    /\ pc' = IF exc # <<>> THEN "raised" ELSE "L130"
    /\ UNCHANGED <<cs, scenario, max_iters, intensifier_kwargs, smac, def_value,
                   inc_value, stdout, exc, log, optRet, optExc, runs, taCalls, frame, result,
                   filters, memo, calls>>

\* lines 130-131 with budget=intensifier_kwargs['initial_budget']
EvaluateIncumbentAtInitialBudget ==
    /\ pc = "L130"
    /\ LET config == incumbent[1]
           budget == Rat(intensifier_kwargs[1].initial_budget, 1)
       IN  /\ frame' = NewFrame(config, 0, "1", budget)
           /\ runs' = Append(runs, [step |-> "eval_incumbent", config |-> config,
                                    instance |-> "1", budget |-> budget,
                                    seed |-> 0])
    /\ log' = Append(log, <<"start", "eval_incumbent">>)
    /\ pc' = "L130_run"
    /\ UNCHANGED <<cs, scenario, max_iters, intensifier_kwargs, smac, def_value,
                   incumbent, inc_value, stdout, exc, optRet, optExc, taCalls, result,
                   filters, memo, calls>>

\* lines 130-131: run(config=incumbent, instance='1', budget=max_iters, seed=0)
\* is entered
EvaluateIncumbent ==
    /\ pc = "L130"
    /\ IF incumbent = <<>>
       THEN \* run(config=None, ...) fails in the library
            /\ exc' = <<"TAError">>
            /\ log' = log \o << <<"start", "eval_incumbent">>,
                                 <<"raise", "eval_incumbent">> >>
            /\ pc' = "raised"
            /\ UNCHANGED <<frame, runs>>
       ELSE /\ LET config == incumbent[1]
                   budget == Rat(max_iters[1], 1)
               IN  /\ frame' = NewFrame(config, 0, "1", budget)
                   /\ runs' = Append(runs, [step |-> "eval_incumbent",
                                            config |-> config, instance |-> "1",
                                            budget |-> budget, seed |-> 0])
            /\ log' = Append(log, <<"start", "eval_incumbent">>)
            /\ pc' = "L130_run"
            /\ exc' = exc
    /\ UNCHANGED <<cs, scenario, max_iters, intensifier_kwargs, smac, def_value,
                   incumbent, inc_value, stdout, optRet, optExc, taCalls, result,
                   filters, memo, calls>>

\* lines 130-131: run(...) is over and [1] of what it returned is inc_value
IncumbentEvaluated ==
    /\ pc = "L130_run"
    /\ ~Running
    /\ result # NoResult
    /\ result' = NoResult
    /\ \E o \in RunOutcomes(result[1]) :
          IF o.kind = "return"
          THEN /\ inc_value' = <<o.value>>
               /\ log' = Append(log, <<"end", "eval_incumbent">>)
               /\ pc' = "L132"
               /\ exc' = exc
          ELSE /\ exc' = <<"TAError">>
               /\ log' = Append(log, <<"raise", "eval_incumbent">>)
               /\ pc' = "raised"
               /\ inc_value' = inc_value
    /\ UNCHANGED <<cs, scenario, max_iters, intensifier_kwargs, smac, def_value,
                   incumbent, stdout, optRet, optExc, runs, taCalls, frame, filters, memo, calls>>

\* line 132
PrintOptimized ==
    /\ pc = "L132"
    /\ stdout' = Append(stdout, <<"Optimized Value", Format4(inc_value[1])>>)
    /\ pc' = "exit"
    /\ UNCHANGED <<cs, scenario, max_iters, intensifier_kwargs, smac, def_value,
                   incumbent, inc_value, exc, log, optRet, optExc, runs, taCalls, frame, result,
                   filters, memo, calls>>

----------------------------------------------------------------------------
(* A harness that calls mlp_from_cfg once, with any arguments *)

HarnessCall ==
    /\ pc = "harness"
    /\ \E cfg \in Configurations, seed \in Seeds, instance \in Instances,
          budget \in HarnessBudgets :
            frame' = NewFrame(cfg, seed, instance, budget)
    /\ pc' = "harness_run"
    /\ UNCHANGED <<cs, scenario, max_iters, intensifier_kwargs, smac, def_value,
                   incumbent, inc_value, stdout, exc, log, optRet, optExc, runs, taCalls,
                   result, filters, memo, calls>>

HarnessDone ==
    /\ pc = "harness_run"
    /\ ~Running
    /\ result # NoResult
    /\ pc' = "harness_done"
    /\ UNCHANGED <<cs, scenario, max_iters, intensifier_kwargs, smac, def_value,
                   incumbent, inc_value, stdout, exc, log, optRet, optExc, runs, taCalls,
                   frame, result, filters, memo, calls>>

Unset ==
    /\ cs = <<>>
    /\ scenario = <<>>
    /\ max_iters = <<>>
    /\ intensifier_kwargs = <<>>
    /\ smac = <<>>
    /\ def_value = <<>>
    /\ incumbent = <<>>
    /\ inc_value = <<>>
    /\ stdout = <<>>
    /\ exc = <<>>
    /\ log = <<>>
    /\ optRet = <<>>
    /\ optExc = <<>>
    /\ runs = <<>>
    /\ taCalls = 0
    /\ frame = NoFrame
    /\ result = NoResult
    /\ memo = <<>>
    /\ calls = {}

InitCall ==
    /\ pc = "harness"
    /\ filters \in FilterStates
    /\ Unset

NextCall ==
    \/ HarnessCall
    \/ EnterCatchWarnings
    \/ IgnoreWarnings
    \/ ConstructMLP
    \/ ConstructCV
    \/ CrossValScore(AllFolds)
    \/ Interrupted
    \/ ExitCatchWarnings
    \/ Return
    \/ HarnessDone

SpecCall == InitCall /\ [][NextCall]_vars

Init ==
    /\ pc = "L86"
    /\ filters \in FilterStates
    /\ Unset

Next ==
    \/ BuildConfigurationSpace
    \/ ConstructScenario
    \/ SetIntensifierKwargs
    \/ ConstructHB4AC
    \/ EvaluateDefault
    \/ DefaultEvaluated
    \/ PrintDefault
    \/ CallOptimize
    \/ OptimizeRunsTA
    \/ OptimizeTakesResult
    \/ OptimizeReturns
    \/ OptimizeRaises
    \/ Finally
    \/ EvaluateIncumbent
    \/ IncumbentEvaluated
    \/ PrintOptimized
    \/ EnterCatchWarnings
    \/ IgnoreWarnings
    \/ ConstructMLP
    \/ ConstructCV
    \/ CrossValScore(SomeFolds)
    \/ Interrupted
    \/ ExitCatchWarnings
    \/ Return

Spec == Init /\ [][Next]_vars

----------------------------------------------------------------------------
(* Properties *)

Returned(c) == c.kind = "return"

Range(q) == {q[i] : i \in 1 .. Len(q)}

\* the six steps of the driver, in the order of the source
StepOrder == <<"build_cs", "scenario", "hb4ac", "eval_default", "optimize",
               "eval_incumbent">>

\* each step starts, then ends, then the next one starts
DriverSchedule ==
    [k \in 1 .. 2 * Len(StepOrder) |->
        <<IF k % 2 = 1 THEN "start" ELSE "end", StepOrder[(k + 1) \div 2]>>]

\* C1: the driver's steps happen in the fixed order build the space,
\* scenario, optimizer, evaluate the default, optimize, evaluate the
\* incumbent; each ends before the next starts, none happens twice (a step
\* that raises ends the run); the target algorithm runs only inside a step;
\* the default is evaluated before optimize() is called and the incumbent is
\* evaluated only after optimize() has returned.
C1_StepsInFixedOrder ==
    /\ Len(log) <= Len(DriverSchedule)
    /\ \A k \in 1 .. Len(log) :
          \/ log[k] = DriverSchedule[k]
          \/ /\ k = Len(log)
             /\ k % 2 = 0
             /\ log[k] = <<"raise", DriverSchedule[k][2]>>
    /\ Running => (log # <<>> /\ log[Len(log)][1] = "start")
    /\ <<"start", "optimize">> \in Range(log) => def_value # <<>>
    /\ <<"start", "eval_incumbent">> \in Range(log) => optRet # <<>>

C1_Witness ==
    /\ pc = "exit"
    /\ log = DriverSchedule
    /\ taCalls > 0

\* C2: a call whose five folds all produced a score returns exactly one minus
\* the mean of the five accuracies; the cost lies in [0, 1]; one more correct
\* answer in any fold gives a lower cost.
C2_CostIsOneMinusMeanAccuracy ==
    \A c \in calls :
        Returned(c) =>
            LET total == SumSeq(c.folds)
                den == n_splits * ScoreDen
            IN  /\ Len(c.folds) = n_splits
                /\ c.value[2] > 0
                /\ c.value[1] * den = c.value[2] * (den - total)
                /\ RatLe(Rat(0, 1), c.value)
                /\ RatLe(c.value, Rat(1, 1))
                /\ \A i \in 1 .. n_splits :
                      c.folds[i] < ScoreDen =>
                          RatLt(Cost([c.folds EXCEPT ![i] = @ + 1]), c.value)

C2_Witness ==
    \E c \in calls :
        /\ Returned(c)
        /\ c.folds[1] # c.folds[2]
        /\ RatLt(Rat(0, 1), c.value)
        /\ RatLt(c.value, Rat(1, 1))

\* C3: when a call of mlp_from_cfg has ended, by a return or by an exception,
\* the filter list is what it was when the call began; between calls it is
\* what it was before every call; inside the body the filter that ignores
\* ConvergenceWarning is at its front.
C3_FiltersRestored ==
    /\ \A c \in calls : c.filters_after = c.filters_before
    /\ ~Running => \A c \in calls : filters = c.filters_before
    /\ (Running /\ frame[1].pc \in {"L66", "L76", "L77"}) =>
          filters[1] = IgnoreConvergenceWarning

C3_Witness ==
    /\ ~Running
    /\ filters = <<DefaultDeprecation, IgnoreConvergenceWarning>>
    /\ \E c \in calls : c.kind = "raise"
    /\ \E c \in calls : Returned(c)

\* C4: the parameter space, the scenario options, max_iters and
\* intensifier_kwargs are assigned once and never change afterwards, in any
\* step of the driver or of mlp_from_cfg; a call of mlp_from_cfg leaves the
\* configuration it was given as it was.
C4_ConstructedOnceNotMutated ==
    [][ /\ cs # <<>> => cs' = cs
        /\ scenario # <<>> => scenario' = scenario
        /\ max_iters # <<>> => max_iters' = max_iters
        /\ intensifier_kwargs # <<>> => intensifier_kwargs' = intensifier_kwargs
        /\ (Running /\ frame' # NoFrame) => frame'[1].cfg = frame[1].cfg
        /\ (Running /\ frame' = NoFrame) => result'[1].cfg = frame[1].cfg
        /\ (Running /\ pc = "L130_run") => frame[1].cfg = incumbent[1] ]_vars

C4_Witness ==
    /\ pc = "exit"
    /\ cs = Hyperparameters
    /\ scenario = <<ScenarioOptions(Hyperparameters)>>
    /\ max_iters = <<50>>
    /\ intensifier_kwargs = <<[initial_budget |-> 5, max_budget |-> 50, eta |-> 3]>>
    /\ \E c \in calls : c.cfg = OtherConfiguration(Hyperparameters)

C6_MaxIterIsCeilingOfBudget ==
    \A c \in calls :
        c.mlp # <<>> =>
            LET b == c.budget
                m == c.mlp[1].max_iter
            IN  /\ RatLe(b, Rat(m, 1))
                /\ RatLt(Rat(m, 1), Rat(b[1] + b[2], b[2]))
                /\ b[1] > 0 => m >= 1
                /\ b[1] % b[2] = 0 => m = b[1] \div b[2]
                /\ \A b2 \in HarnessBudgets : RatLe(b, b2) => m <= IntCeil(b2)

C6_Witness ==
    \E c \in calls :
        /\ c.mlp # <<>>
        /\ c.budget[1] > 0
        /\ c.budget[1] % c.budget[2] # 0
        /\ c.mlp[1].max_iter = 2

OptimizedValuePrinted == \E i \in 1 .. Len(stdout) : stdout[i][1] = "Optimized Value"

\* C7: once optimize() has raised, the driver runs the finally clause and
\* ends with that exception: optimize() was called once, the incumbent is
\* not evaluated and "Optimized Value" is not printed; the line is printed
\* only when optimize() returned.
C7_NoRecoveryAfterOptimizeRaises ==
    /\ optExc # <<>> =>
          /\ pc \in {"L128", "raised"}
          /\ exc = optExc
          /\ optRet = <<>>
          /\ inc_value = <<>>
          /\ ~OptimizedValuePrinted
          /\ \A i \in 1 .. Len(runs) : runs[i].step # "eval_incumbent"
          /\ Cardinality({k \in 1 .. Len(log) : log[k] = <<"start", "optimize">>}) = 1
    /\ OptimizedValuePrinted => (optRet # <<>> /\ optExc = <<>>)

C7_Witness ==
    /\ pc = "raised"
    /\ optExc # <<>>
    /\ exc = optExc
    /\ incumbent # <<>>
    /\ taCalls > 0

\* C8: the configuration of the final evaluation is smac.solver.incumbent as
\* it is once optimize() has returned, also when optimize() returned another
\* configuration.
C8_FinalEvaluationUsesSolverIncumbent ==
    /\ \A i \in 1 .. Len(runs) :
          runs[i].step = "eval_incumbent" =>
              /\ optRet # <<>>
              /\ smac[1].solver.incumbent = <<runs[i].config>>
    /\ pc \in {"L130", "L130_run", "L132", "exit"} =>
          incumbent = smac[1].solver.incumbent
    /\ (pc = "L130_run" /\ Running) => <<frame[1].cfg>> = smac[1].solver.incumbent

C8_Witness ==
    /\ pc = "exit"
    /\ \E i \in 1 .. Len(runs) :
          /\ runs[i].step = "eval_incumbent"
          /\ optRet # <<runs[i].config>>

\* C9: the driver evaluates the default configuration and the incumbent with
\* the same arguments: instance '1', seed 0 and budget max_iters = 50, which
\* is max_budget; and 0 < initial_budget = 5 <= max_budget, eta = 3 > 1.
C9_EvaluationsUnderSameConditions ==
    /\ \A i \in 1 .. Len(runs) :
          /\ runs[i].instance = "1"
          /\ runs[i].seed = 0
          /\ runs[i].budget = Rat(max_iters[1], 1)
          /\ runs[i].budget = Rat(intensifier_kwargs[1].max_budget, 1)
    /\ intensifier_kwargs # <<>> =>
          LET kw == intensifier_kwargs[1]
          IN  /\ max_iters = <<50>>
              /\ kw.max_budget = max_iters[1]
              /\ kw.initial_budget = 5
              /\ kw.eta = 3
              /\ 0 < kw.initial_budget
              /\ kw.initial_budget <= kw.max_budget
              /\ kw.eta > 1
    /\ (Running /\ pc \in {"L120_run", "L130_run"}) =>
          /\ frame[1].instance = "1"
          /\ frame[1].seed = 0
          /\ frame[1].budget = Rat(50, 1)

C9_Witness ==
    /\ pc = "exit"
    /\ Len(runs) = 2
    /\ runs[1].step = "eval_default"
    /\ runs[2].step = "eval_incumbent"
    /\ runs[1].config # runs[2].config

\* C10: a call in which the fit or the scoring of a fold failed raises and
\* returns no cost; every cost returned comes from five folds that were
\* all scored.
C10_FailedFoldRaises ==
    \A c \in calls :
        /\ FoldFailed \in Range(c.folds) => c.kind = "raise"
        /\ Returned(c) => /\ Len(c.folds) = n_splits
                          /\ \A i \in 1 .. n_splits : c.folds[i] \in 0 .. ScoreDen

C10_Witness ==
    \E c \in calls :
        /\ c.kind = "raise"
        /\ Len(c.folds) = n_splits
        /\ c.folds[n_splits] = FoldFailed
        /\ \A i \in 1 .. (n_splits - 1) : c.folds[i] = ScoreDen

====
